---- MODULE Spec2Model ----
(***************************************************************************)
(* A model of the ai-content-pipeline: the orchestrator's phases over the  *)
(* content_queue (pipeline/orchestrator.py, database.py) and the slot      *)
(* arithmetic of BlatoScheduler.schedule_batch (pipeline/scheduler.py).    *)
(*                                                                         *)
(* Spec       the orchestrator's methods called with any id lists:         *)
(*            run_discovery, run_generation, run_scheduling and            *)
(*            run_full_pipeline over one database.                         *)
(* CliSpec    the same database driven by main.py's commands: the full     *)
(*            run and --phase discovery, generation, scheduling.           *)
(* SchedSpec  schedule_batch as a function of its inputs.                  *)
(***************************************************************************)
EXTENDS Integers, Sequences, FiniteSets, TLC

\* ---------------------------------------------------------------- bounds
\* Spec: rows of content_queue, length of an id list, top-level calls,
\* credentials missing from the environment, POSTS_PER_DAY.
MaxItems == 2
MaxLen == 2
MaxCalls == 2
MaxMissing == 1
MaxConfigPPD == 1
\* SchedSpec: POSTS_PER_DAY, videos in a batch, failing videos in a batch.
MaxPPD == 4
MaxBatch == 8
MaxFailing == 1
\* TopSpec: items scraped over the three platforms.
MaxScraped == 3
\* PollSpec: _poll_status's max_polls.
MaxPolls == 3
\* The clock of continuous mode, in sleeps of the loop (time.sleep(60)).
MaxTicks == 3
\* retry_sync / retry_async: the largest max_attempts and the longest delays
\* tuple.
MaxAttempts == 3
\* The most reference photos given to create_soul_id.
MaxPhotos == 6
MaxDelays == 2

\* ------------------------------------------------------- general helpers
Range(s) == {s[k] : k \in 1..Len(s)}

SeqsUpTo(S, n) == UNION {[1..m -> S] : m \in 0..n}

\* A NULL column of content_queue, Python's None and the empty string: all
\* are falsy where the code tests them.
NULL == 0

\* ----------------------------------------------- scheduler.py: the slots
\* hours = [9, 13, 18]
Hours == <<9, 13, 18>>

\* A day offset that moves to the next day one item early.
DayOffsetRoundedUp(i, ppd) == (i + 1) \div ppd

\* day_offset = i // posts_per_day        (posts_per_day # 0)
DayOffset(i, ppd) == i \div ppd

\* A slot that keeps counting through the batch instead of starting again
\* each day.
SlotInDayByIndex(i, ppd) == i

\* slot_in_day = i % posts_per_day
SlotInDay(i, ppd) == i % ppd

\* hour = hours[slot_in_day % len(hours)]    (Python indexes from 0)
HourOf(i, ppd) == Hours[(SlotInDay(i, ppd) % Len(Hours)) + 1]

\* now + timedelta(days=d): a UTC datetime, its date kept as a day number.
TimeDelta(dt, d) == [dt EXCEPT !.day = @ + d]

\* schedule_dt.replace(hour=hour, minute=0, second=0, microsecond=0)
Replace(dt, h) == [dt EXCEPT !.hour = h, !.minute = 0, !.second = 0, !.microsecond = 0]

ScheduleDt(now, i, ppd) == Replace(TimeDelta(now, DayOffset(i, ppd) + 1), HourOf(i, ppd))

\* datetime.isoformat(): date, hour, minute, second, and the microseconds
\* only when they are not zero.
IsoFormat(dt) ==
    <<dt.day, dt.hour, dt.minute, dt.second>> \o
        (IF dt.microsecond = 0 THEN <<>> ELSE <<dt.microsecond>>)

\* The post_submission_id the Blotato API answers for a post of one video:
\* an opaque non-empty id, named here after the video it was issued for.
SubIdFor(video) == 100 + video

\* What happens to one video of a batch: its file is gone ("missing"), the
\* upload fails, the post request fails, or both succeed.
BatchOutcomes == {"missing", "upload_fail", "post_fail", "ok"}

EmptyBatchResult == [raised |-> FALSE, submission_ids |-> <<>>, requests |-> <<>>]

\* The loop of schedule_batch from batch position k (index k - 1) on.
\* requests are the schedule_post calls made: index, video, schedule_time.
RECURSIVE SbLoop(_, _, _, _, _, _)
SbLoop(videos, outs, ppd, now, k, acc) ==
    IF k > Len(videos) THEN acc
    ELSE IF videos[k] = NULL \/ outs[k] = "missing"
    THEN SbLoop(videos, outs, ppd, now, k + 1, acc)
    ELSE IF ppd = 0
    THEN [acc EXCEPT !.raised = TRUE]
    ELSE LET schedule_time == IsoFormat(ScheduleDt(now, k - 1, ppd))
             req == [index |-> k - 1, video |-> videos[k], time |-> schedule_time]
             acc2 == [acc EXCEPT !.requests = Append(@, req)]
         IN IF outs[k] = "upload_fail"
            THEN SbLoop(videos, outs, ppd, now, k + 1, acc)
            ELSE IF outs[k] = "post_fail"
            THEN SbLoop(videos, outs, ppd, now, k + 1, acc2)
            ELSE SbLoop(videos, outs, ppd, now, k + 1,
                        [acc2 EXCEPT !.submission_ids = Append(@, SubIdFor(videos[k]))])

\* BlatoScheduler.schedule_batch(videos_with_captions, platforms)
ScheduleBatch(api_key, videos, outs, ppd, now) ==
    IF ~api_key THEN EmptyBatchResult
    ELSE SbLoop(videos, outs, ppd, now, 1, EmptyBatchResult)

\* ------------------------------------------------ database.py: the tables
Statuses == {"pending", "generating", "generated", "failed", "scheduled"}

\* What json.loads gives for the stored script text: a JSON object, or a
\* JSON value that is not one (run_discovery stores json.dumps of the
\* analysis's "script", which Gemini may answer as a plain string).
ScriptKinds == {"object", "nonobject"}

\* Database.add_content: INSERT ... VALUES (?, ?, ?, ?, 'pending'); the
\* other columns are NULL. The row id is the position in the table.
NewRow(script) ==
    [status |-> "pending", script |-> script, video_path |-> NULL,
     audio_path |-> NULL, final_video_path |-> NULL, post_submission_id |-> NULL]

AddContent(q, script) == Append(q, NewRow(script))

\* Database.get_content: the row, or None when no row has the id.
Exists(q, id) == id \in 1..Len(q)

\* Database.update_content_status(content_id, status, **fields):
\* UPDATE content_queue SET status = ?, <field> = ? ... WHERE id = ?
UpdateContentStatus(q, id, status, fields) ==
    IF ~Exists(q, id) THEN q
    ELSE [q EXCEPT ![id] =
            [f \in DOMAIN q[id] |->
                IF f = "status" THEN status
                ELSE IF f \in DOMAIN fields THEN fields[f]
                ELSE q[id][f]]]

NoFields == [f \in {} |-> NULL]

\* Database.log_post: one INSERT into post_log.
LogPost(log, content_id, platform, post_id, status) ==
    Append(log, [content_id |-> content_id, platform |-> platform,
                 post_id |-> post_id, status |-> status])

\* --------------------------------------------------- config.py: Config
\* Each credential, and SOUL_ID, is set (TRUE) or the empty string (FALSE).
Credentials == {"apify", "gemini", "higgsfield", "elevenlabs", "blotato", "soul_id"}

Missing(cfg) == {c \in Credentials : ~cfg[c]}

Configs ==
    {cfg \in [apify : BOOLEAN, gemini : BOOLEAN, higgsfield : BOOLEAN,
              elevenlabs : BOOLEAN, blotato : BOOLEAN, soul_id : BOOLEAN,
              posts_per_day : 0..MaxConfigPPD] :
        Cardinality(Missing(cfg)) <= MaxMissing}

\* PLATFORMS = os.getenv("PLATFORMS", "tiktok,instagram,youtube").split(",")
Platforms == <<"tiktok", "instagram", "youtube">>

\* datetime.now(timezone.utc) of the orchestrator's runs.
Now0 == [day |-> 0, hour |-> 10, minute |-> 30, second |-> 15, microsecond |-> 7]

\* --------------------------------------- orchestrator.py: run_discovery
\* ApifyScraper.__init__ raises ValueError when APIFY_API_TOKEN is not set.
ApifyScraperInit(cfg) == [exc |-> ~cfg.apify]

\* GeminiAnalyzer.__init__ raises ValueError when GEMINI_API_KEY is not set.
GeminiAnalyzerInit(cfg) == [exc |-> ~cfg.gemini]

\* Step 1a with no except clause: the scraper's exception leaves the phase.
TryScrapeNoCatch(cfg, scrape) ==
    IF ApifyScraperInit(cfg).exc \/ scrape.exc
    THEN [exc |-> TRUE, raw |-> 0]
    ELSE [exc |-> FALSE, raw |-> scrape.n]

\* Step 1a, the try/except around ApifyScraper() and get_top_content:
\* scrape = [exc, n] is what get_top_content does (raise, or n items).
TryScrape(cfg, scrape) ==
    IF ApifyScraperInit(cfg).exc \/ scrape.exc
    THEN [exc |-> FALSE, raw |-> 0]
    ELSE [exc |-> FALSE, raw |-> scrape.n]

\* analyze_content's loop: an analysis is appended for each raw item whose
\* Gemini answer is not empty; answers[k] is the script it carries, or "none".
RECURSIVE AnalyzeContent(_, _, _, _)
AnalyzeContent(raw, answers, k, results) ==
    IF k > raw THEN results
    ELSE AnalyzeContent(raw, answers, k + 1,
                        IF answers[k] = "none" THEN results
                        ELSE Append(results, answers[k]))

\* Step 1b, the try/except around GeminiAnalyzer() and analyze_content:
\* analysis = [exc, answers] is what analyze_content meets on the raw items
\* (an exception, or Gemini's answer for each item).
TryAnalyze(cfg, raw, analysis) ==
    IF GeminiAnalyzerInit(cfg).exc \/ analysis.exc
    THEN [exc |-> FALSE, analyses |-> <<>>]
    ELSE [exc |-> FALSE, analyses |-> AnalyzeContent(raw, analysis.answers, 1, <<>>)]

\* Step 1c: add_content for each analysis, collecting the row ids.
RECURSIVE QueueAll(_, _, _, _)
QueueAll(q, analyses, k, ids) ==
    IF k > Len(analyses) THEN [queue |-> q, ids |-> ids]
    ELSE QueueAll(AddContent(q, analyses[k]), analyses, k + 1,
                  Append(ids, Len(q) + 1))

\* A scrape that never counts as empty: analysis is attempted on no items.
NoContentNever(raw) == FALSE

\* if not raw_content
NoContent(raw) == raw = 0

\* PipelineOrchestrator.run_discovery: raw is the number of scraped items,
\* analyzed tells whether GeminiAnalyzer.analyze_content was called.
RunDiscovery(q, cfg, scrape, analysis) ==
    LET s == TryScrape(cfg, scrape)
        none == [raised |-> FALSE, queue |-> q, ids |-> <<>>, raw |-> s.raw,
                 analyzed |-> FALSE]
    IN
    IF s.exc THEN [none EXCEPT !.raised = TRUE]
    ELSE IF NoContent(s.raw) THEN none
    ELSE LET a == TryAnalyze(cfg, s.raw, analysis)
             called == ~GeminiAnalyzerInit(cfg).exc
         IN
         IF a.exc THEN [none EXCEPT !.raised = TRUE, !.analyzed = called]
         ELSE IF a.analyses = <<>> THEN [none EXCEPT !.analyzed = called]
         ELSE LET r == QueueAll(q, a.analyses, 1, <<>>)
              IN [raised |-> FALSE, queue |-> r.queue, ids |-> r.ids,
                  raw |-> s.raw, analyzed |-> called]

\* -------------------------------------- orchestrator.py: run_generation
\* The name of a newly written artifact of item qid: unlike the one stored.
FreshPath(qid, old) == IF old = 2 * qid THEN 2 * qid + 1 ELSE 2 * qid

\* What the three external steps do for one item. A step that is not
\* reached (an earlier one gave no path) is written "ok".
GenExts ==
    {ext \in [video : {"ok", "null"}, voice : {"ok", "null", "exc"},
              compose : {"ok", "null", "exc"}] :
        /\ ext.video = "null" => ext.voice = "ok"
        /\ ext.voice # "ok" => ext.compose = "ok"}

\* HiggsFieldGenerator.generate_video: None without the API key or on any
\* failure, else the downloaded file's path.
GenerateVideo(cfg, row, qid, ext) ==
    IF ~cfg.higgsfield \/ ext.video = "null" THEN NULL
    ELSE FreshPath(qid, row.video_path)

\* ElevenLabsVoice.synthesize_script: raises when joining the script's parts
\* fails; None without a client or on any API failure; else the MP3's path.
SynthesizeScript(cfg, row, qid, ext) ==
    IF ext.voice = "exc" THEN [exc |-> TRUE, path |-> NULL]
    ELSE IF ~cfg.elevenlabs \/ ext.voice = "null" THEN [exc |-> FALSE, path |-> NULL]
    ELSE [exc |-> FALSE, path |-> FreshPath(qid, row.audio_path)]

\* VideoEditor.compose_final: the output path, None when the final file
\* fails verify_file, or an exception from outside its try block.
ComposeFinal(row, qid, ext) ==
    IF ext.compose = "exc" THEN [exc |-> TRUE, path |-> NULL]
    ELSE IF ext.compose = "null" THEN [exc |-> FALSE, path |-> NULL]
    ELSE [exc |-> FALSE, path |-> FreshPath(qid, row.final_video_path)]

\* The except clause of the item's try block.
OnException(video, audio) ==
    [status |-> "failed", fields |-> NoFields, video |-> video, audio |-> audio]

\* The body of the try block for one item (row is the content read before
\* the item was marked generating): the status and fields of the last
\* update_content_status, and the locals video_path and audio_path.
GenerateItem(cfg, row, qid, ext) ==
    IF row.script # "object" THEN OnException(NULL, NULL)
    ELSE LET video_path == GenerateVideo(cfg, row, qid, ext) IN
    IF video_path = NULL
    THEN [status |-> "failed", fields |-> NoFields, video |-> NULL, audio |-> NULL]
    ELSE LET voice == SynthesizeScript(cfg, row, qid, ext) IN
    IF voice.exc THEN OnException(video_path, NULL)
    ELSE IF voice.path = NULL
    THEN [status |-> "failed", fields |-> [video_path |-> video_path],
          video |-> video_path, audio |-> NULL]
    ELSE LET final == ComposeFinal(row, qid, ext) IN
    IF final.exc THEN OnException(video_path, voice.path)
    ELSE IF final.path = NULL
    THEN [status |-> "failed",
          fields |-> [video_path |-> video_path, audio_path |-> voice.path],
          video |-> video_path, audio |-> voice.path]
    ELSE [status |-> "generated",
          fields |-> [video_path |-> video_path, audio_path |-> voice.path,
                      final_video_path |-> final.path],
          video |-> video_path, audio |-> voice.path]

\* -------------------------------------- orchestrator.py: run_scheduling
\* A batch that takes every row that exists, whatever its status and path.
RECURSIVE BuildBatchOfAll(_, _, _, _)
BuildBatchOfAll(q, ids, k, id_map) ==
    IF k > Len(ids) THEN id_map
    ELSE IF ~Exists(q, ids[k]) THEN BuildBatchOfAll(q, ids, k + 1, id_map)
    ELSE BuildBatchOfAll(q, ids, k + 1, Append(id_map, ids[k]))

\* The batch built from queue_ids: the ids (id_map, by batch position) of
\* the rows that exist, are generated and have a final_video_path.
RECURSIVE BuildBatch(_, _, _, _)
BuildBatch(q, ids, k, id_map) ==
    IF k > Len(ids) THEN id_map
    ELSE IF ~Exists(q, ids[k]) THEN BuildBatch(q, ids, k + 1, id_map)
    ELSE IF q[ids[k]].status # "generated" THEN BuildBatch(q, ids, k + 1, id_map)
    ELSE IF q[ids[k]].final_video_path = NULL THEN BuildBatch(q, ids, k + 1, id_map)
    ELSE BuildBatch(q, ids, k + 1, Append(id_map, ids[k]))

BatchVideos(q, id_map) == [k \in 1..Len(id_map) |-> q[id_map[k]].final_video_path]

\* log_post for each platform.
RECURSIVE LogAll(_, _, _, _, _)
LogAll(log, qid, platforms, sub_id, k) ==
    IF k > Len(platforms) THEN log
    ELSE LogAll(LogPost(log, qid, platforms[k], sub_id, "scheduled"),
                qid, platforms, sub_id, k + 1)

\* for i, sub_id in enumerate(submission_ids): qid = id_map.get(i) ...
RECURSIVE ApplySubmissions(_, _, _, _, _, _, _)
ApplySubmissions(q, log, id_map, subs, platforms, k, scheduled_ids) ==
    IF k > Len(subs) THEN [queue |-> q, post_log |-> log, val |-> scheduled_ids]
    ELSE LET qid == IF k \in 1..Len(id_map) THEN id_map[k] ELSE NULL IN
         IF qid # NULL /\ subs[k] # NULL
         THEN ApplySubmissions(
                  UpdateContentStatus(q, qid, "scheduled",
                                      [post_submission_id |-> subs[k]]),
                  LogAll(log, qid, platforms, subs[k], 1),
                  id_map, subs, platforms, k + 1, Append(scheduled_ids, qid))
         ELSE ApplySubmissions(q, log, id_map, subs, platforms, k + 1, scheduled_ids)

\* PipelineOrchestrator.run_scheduling: outs is what happens to each video
\* of the batch, by batch position.
RunScheduling(q, log, cfg, ids, outs) ==
    LET id_map == BuildBatch(q, ids, 1, <<>>)
        none == [raised |-> FALSE, queue |-> q, post_log |-> log, val |-> <<>>,
                 batch |-> <<>>]
    IN IF ~cfg.blotato THEN none
       ELSE IF id_map = <<>> THEN none
       ELSE LET b == ScheduleBatch(cfg.blotato, BatchVideos(q, id_map), outs,
                                   cfg.posts_per_day, Now0)
            IN IF b.raised THEN [none EXCEPT !.raised = TRUE, !.batch = id_map]
               ELSE LET a == ApplySubmissions(q, log, id_map, b.submission_ids,
                                              Platforms, 1, <<>>)
                    IN [raised |-> FALSE, queue |-> a.queue, post_log |-> a.post_log,
                        val |-> a.val, batch |-> id_map]

\* ------------------------------------------------------------- the state
VARIABLES
    queue,      \* content_queue: the rows, by id
    post_log,   \* post_log: the rows, in insertion order
    config,     \* Config, as loaded from the environment
    pc,         \* where the program is: "idle", "gen", "sched" or "done"
    frame,      \* the locals of the call in progress
    ret,        \* the outcome of the last call that ended
    calls,      \* the number of top-level calls made
    sb,         \* schedule_batch's inputs and result (SchedSpec)
    unit        \* one component's call, its inputs and progress (the
                \* component specifications)

vars == <<queue, post_log, config, pc, frame, ret, calls, sb, unit>>

NoFrame ==
    [full |-> FALSE, ids |-> <<>>, pos |-> 1, marked |-> FALSE, row |-> NewRow("object"),
     generated_ids |-> <<>>, last |-> NULL, video |-> NULL, audio |-> NULL,
     discovered |-> 0]

NoRet ==
    [op |-> "none", raised |-> FALSE, ids |-> <<>>, val |-> <<>>,
     batch |-> <<>>, outs |-> <<>>, raw |-> 0, analyzed |-> FALSE,
     summary |-> [discovered |-> 0, generated |-> 0, scheduled |-> 0]]

\* schedule_batch's inputs, drawn by SchedInit: the clock, the key, the
\* batch's videos and what happens to each.
Nows ==
    [day : {0, 30}, hour : {0, 23}, minute : {0, 59}, second : {30},
     microsecond : {0, 999999}]

\* All the outcome patterns of a batch of n videos in which at most
\* MaxFailing videos are not posted.
OutPatterns(n) ==
    {outs \in [1..n -> BatchOutcomes] :
        Cardinality({k \in 1..n : outs[k] # "ok"}) <= MaxFailing}

NoSb ==
    [phase |-> "off", api_key |-> TRUE, ppd |-> 0, now |-> Now0, videos |-> <<>>,
     outs |-> <<>>, result |-> EmptyBatchResult]

\* No component call is under way.
NoUnit == [kind |-> "none"]

\* The id lists a caller may pass: any ids, present or not, repeated or not.
IdLists == SeqsUpTo(1..MaxItems, MaxLen)

\* What get_top_content may do in one discovery: raise, or return n items.
Scrapes == {[exc |-> TRUE, n |-> 0]} \cup [exc : {FALSE}, n : 0..MaxItems]

\* What analyze_content may meet on n raw items.
AnalysesFor(n) ==
    {[exc |-> TRUE, answers |-> [k \in 1..n |-> "none"]]} \cup
    [exc : {FALSE}, answers : [1..n -> ScriptKinds \cup {"none"}]]

Init ==
    /\ queue = <<>>
    /\ post_log = <<>>
    /\ config \in Configs
    /\ pc = "idle"
    /\ frame = NoFrame
    /\ ret = NoRet
    /\ calls = 0
    /\ sb = NoSb
    /\ unit = NoUnit

\* ----------------------------------------------------------- the actions
\* run_discovery(), called by `--phase discovery`.
Discovery(scrape, analysis) ==
    /\ pc = "idle"
    /\ calls < MaxCalls
    /\ scrape.n + Len(queue) <= MaxItems
    /\ LET r == RunDiscovery(queue, config, scrape, analysis) IN
        /\ queue' = r.queue
        /\ ret' = [NoRet EXCEPT !.op = "discovery", !.raised = r.raised,
                                !.val = r.ids, !.raw = r.raw,
                                !.analyzed = r.analyzed]
    /\ pc' = "done"
    /\ calls' = calls + 1
    /\ UNCHANGED <<post_log, config, frame, sb, unit>>

\* A Soul ID test that always finds one.
SoulIdNeverMissing(cfg) == FALSE

\* soul_id = Config.SOUL_ID; if not soul_id
SoulIdMissing(cfg) == ~cfg.soul_id

\* The head of run_generation(queue_ids): without a Soul ID it returns [].
EnterGeneration(ids, full, discovered) ==
    IF SoulIdMissing(config)
    THEN /\ pc' = "done"
         /\ frame' = NoFrame
         /\ ret' = IF full
                   THEN [NoRet EXCEPT !.op = "full", !.summary.discovered = discovered]
                   ELSE [NoRet EXCEPT !.op = "generation", !.ids = ids]
    ELSE /\ pc' = "gen"
         /\ frame' = [NoFrame EXCEPT !.full = full, !.ids = ids,
                                     !.discovered = discovered]
         /\ ret' = NoRet

\* run_generation(queue_ids), called with any id list.
GenCall(ids) ==
    /\ pc = "idle"
    /\ calls < MaxCalls
    /\ EnterGeneration(ids, FALSE, 0)
    /\ calls' = calls + 1
    /\ UNCHANGED <<queue, post_log, config, sb, unit>>

\* for qid in queue_ids: content = get_content(qid); if not content:
\* continue; update_content_status(qid, "generating")
GenMark ==
    /\ pc = "gen"
    /\ ~frame.marked
    /\ frame.pos <= Len(frame.ids)
    /\ LET qid == frame.ids[frame.pos] IN
        IF ~Exists(queue, qid)
        THEN /\ frame' = [frame EXCEPT !.pos = @ + 1, !.last = NULL]
             /\ UNCHANGED queue
        ELSE /\ queue' = UpdateContentStatus(queue, qid, "generating", NoFields)
             /\ frame' = [frame EXCEPT !.marked = TRUE, !.row = queue[qid],
                                       !.last = NULL]
    /\ UNCHANGED <<post_log, config, pc, ret, calls, sb, unit>>

\* The try block of the item marked generating, to its last update.
GenFinish(ext) ==
    /\ pc = "gen"
    /\ frame.marked
    /\ LET qid == frame.ids[frame.pos]
           g == GenerateItem(config, frame.row, qid, ext)
       IN /\ queue' = UpdateContentStatus(queue, qid, g.status, g.fields)
          /\ frame' = [frame EXCEPT
                          !.pos = @ + 1, !.marked = FALSE, !.last = qid,
                          !.video = g.video, !.audio = g.audio,
                          !.generated_ids =
                              IF g.status = "generated" THEN Append(@, qid) ELSE @]
    /\ UNCHANGED <<post_log, config, pc, ret, calls, sb, unit>>

\* return generated_ids; inside run_full_pipeline the scheduling phase
\* follows when the list is not empty.
GenReturn ==
    /\ pc = "gen"
    /\ ~frame.marked
    /\ frame.pos > Len(frame.ids)
    /\ IF ~frame.full
       THEN /\ pc' = "done"
            /\ frame' = NoFrame
            /\ ret' = [NoRet EXCEPT !.op = "generation", !.ids = frame.ids,
                                    !.val = frame.generated_ids]
       ELSE IF frame.generated_ids = <<>>
       THEN /\ pc' = "done"
            /\ frame' = NoFrame
            /\ ret' = [NoRet EXCEPT !.op = "full",
                                    !.summary.discovered = frame.discovered]
       ELSE /\ pc' = "sched"
            /\ frame' = [frame EXCEPT !.last = NULL]
            /\ ret' = NoRet
    /\ UNCHANGED <<queue, post_log, config, calls, sb, unit>>

\* run_scheduling(queue_ids), called with any id list.
SchedCall(ids) ==
    /\ pc = "idle"
    /\ calls < MaxCalls
    /\ \E outs \in [1..Len(BuildBatch(queue, ids, 1, <<>>)) -> BatchOutcomes] :
        LET r == RunScheduling(queue, post_log, config, ids, outs) IN
        /\ queue' = r.queue
        /\ post_log' = r.post_log
        /\ ret' = [NoRet EXCEPT !.op = "scheduling", !.raised = r.raised, !.ids = ids,
                                !.val = r.val, !.batch = r.batch, !.outs = outs]
    /\ pc' = "done"
    /\ calls' = calls + 1
    /\ UNCHANGED <<config, frame, sb, unit>>

\* run_full_pipeline(): run_discovery, then run_generation(queue_ids) if
\* queue_ids else [].
FullCall(scrape, analysis) ==
    /\ pc = "idle"
    /\ calls < MaxCalls
    /\ scrape.n + Len(queue) <= MaxItems
    /\ LET r == RunDiscovery(queue, config, scrape, analysis) IN
        /\ queue' = r.queue
        /\ IF r.raised
           THEN /\ pc' = "done"
                /\ frame' = NoFrame
                /\ ret' = [NoRet EXCEPT !.op = "full", !.raised = TRUE]
           ELSE IF r.ids = <<>>
           THEN /\ pc' = "done"
                /\ frame' = NoFrame
                /\ ret' = [NoRet EXCEPT !.op = "full"]
           ELSE EnterGeneration(r.ids, TRUE, Len(r.ids))
    /\ calls' = calls + 1
    /\ UNCHANGED <<post_log, config, sb, unit>>

\* The rest of run_full_pipeline: run_scheduling(generated_ids) and the
\* summary.
FullSched ==
    /\ pc = "sched"
    /\ \E outs \in [1..Len(BuildBatch(queue, frame.generated_ids, 1, <<>>))
                        -> BatchOutcomes] :
        LET r == RunScheduling(queue, post_log, config, frame.generated_ids, outs) IN
        /\ queue' = r.queue
        /\ post_log' = r.post_log
        /\ ret' = [NoRet EXCEPT
                      !.op = "full", !.raised = r.raised,
                      !.ids = frame.generated_ids,
                      !.val = r.val, !.batch = r.batch, !.outs = outs,
                      !.summary = IF r.raised THEN @
                                  ELSE [discovered |-> frame.discovered,
                                        generated |-> Len(frame.generated_ids),
                                        scheduled |-> Len(r.val)]]
    /\ pc' = "done"
    /\ frame' = NoFrame
    /\ UNCHANGED <<config, calls, sb, unit>>

\* The caller takes the returned value (main.py prints it) and the program
\* is ready for the next command.
Report ==
    /\ pc = "done"
    /\ pc' = "idle"
    /\ ret' = NoRet
    /\ UNCHANGED <<queue, post_log, config, frame, calls, sb, unit>>

\* A selection that takes every row, whatever its status.
RECURSIVE GetContentsOfAnyStatus(_, _, _, _)
GetContentsOfAnyStatus(q, status, k, ids) ==
    IF k > Len(q) THEN ids
    ELSE GetContentsOfAnyStatus(q, status, k + 1, Append(ids, k))

\* main.py, Database.get_contents_by_status: the ids of the rows with the
\* status, in table order.
RECURSIVE GetContentsByStatus(_, _, _, _)
GetContentsByStatus(q, status, k, ids) ==
    IF k > Len(q) THEN ids
    ELSE GetContentsByStatus(q, status, k + 1,
                             IF q[k].status = status THEN Append(ids, k) ELSE ids)

\* `--phase generation`: run_generation on the pending items, if any.
CliGeneration ==
    /\ pc = "idle"
    /\ calls < MaxCalls
    /\ LET ids == GetContentsByStatus(queue, "pending", 1, <<>>) IN
        /\ ids # <<>>
        /\ EnterGeneration(ids, FALSE, 0)
    /\ calls' = calls + 1
    /\ UNCHANGED <<queue, post_log, config, sb, unit>>

\* `--phase scheduling`: run_scheduling on the generated items, if any.
CliScheduling ==
    /\ pc = "idle"
    /\ calls < MaxCalls
    /\ LET ids == GetContentsByStatus(queue, "generated", 1, <<>>) IN
        /\ ids # <<>>
        /\ SchedCall(ids)

Next ==
    \/ \E scrape \in Scrapes : \E analysis \in AnalysesFor(scrape.n) :
            Discovery(scrape, analysis)
    \/ \E ids \in IdLists : GenCall(ids)
    \/ GenMark
    \/ \E ext \in GenExts : GenFinish(ext)
    \/ GenReturn
    \/ \E ids \in IdLists : SchedCall(ids)
    \/ \E scrape \in Scrapes : \E analysis \in AnalysesFor(scrape.n) :
            FullCall(scrape, analysis)
    \/ FullSched
    \/ Report

Spec == Init /\ [][Next]_vars

CliNext ==
    \/ \E scrape \in Scrapes : \E analysis \in AnalysesFor(scrape.n) :
            Discovery(scrape, analysis)
    \/ CliGeneration
    \/ GenMark
    \/ \E ext \in GenExts : GenFinish(ext)
    \/ GenReturn
    \/ CliScheduling
    \/ \E scrape \in Scrapes : \E analysis \in AnalysesFor(scrape.n) :
            FullCall(scrape, analysis)
    \/ FullSched
    \/ Report

CliSpec == Init /\ [][CliNext]_vars

\* ------------------------------------------- schedule_batch on its inputs
SchedInit ==
    /\ queue = <<>>
    /\ post_log = <<>>
    /\ config = [apify |-> TRUE, gemini |-> TRUE, higgsfield |-> TRUE,
                 elevenlabs |-> TRUE, blotato |-> TRUE, soul_id |-> TRUE,
                 posts_per_day |-> 0]
    /\ pc = "idle"
    /\ frame = NoFrame
    /\ ret = NoRet
    /\ calls = 0
    /\ unit = NoUnit
    /\ \E n \in 0..MaxBatch :
        sb \in [phase : {"in"}, api_key : BOOLEAN, ppd : 0..MaxPPD, now : Nows,
                videos : {[k \in 1..n |-> k]}, outs : OutPatterns(n),
                result : {EmptyBatchResult}]

\* One call of schedule_batch.
SbRun ==
    /\ sb.phase = "in"
    /\ sb' = [sb EXCEPT
                 !.phase = "out",
                 !.result = ScheduleBatch(sb.api_key, sb.videos, sb.outs, sb.ppd, sb.now)]
    /\ UNCHANGED <<queue, post_log, config, pc, frame, ret, calls, unit>>

SchedNext == SbRun

SchedSpec == SchedInit /\ [][SchedNext]_vars

\* ------------------------------------------- run_generation, no Soul ID
\* The program is started again with SOUL_ID no longer in its environment
\* (Config reads it at import); the database file is the same.
RestartWithoutSoulId ==
    /\ pc = "idle"
    /\ config.soul_id
    /\ config' = [config EXCEPT !.soul_id = FALSE]
    /\ UNCHANGED <<queue, post_log, pc, frame, ret, calls, sb, unit>>

\* run_generation(queue_ids) with any id list, while no Soul ID is set.
GenCallNoSoulId(ids) == ~config.soul_id /\ GenCall(ids)

SoulNext ==
    \/ CliNext
    \/ RestartWithoutSoulId
    \/ \E ids \in IdLists : GenCallNoSoulId(ids)

SoulSpec == Init /\ [][SoulNext]_vars

\* ------------------------------------- video_editor.py: compose_final
\* The pipeline's variables, untouched by the component specifications.
PipelineIdle ==
    /\ queue = <<>>
    /\ post_log = <<>>
    /\ config = [apify |-> TRUE, gemini |-> TRUE, higgsfield |-> TRUE,
                 elevenlabs |-> TRUE, blotato |-> TRUE, soul_id |-> TRUE,
                 posts_per_day |-> 0]
    /\ pc = "idle"
    /\ frame = NoFrame
    /\ ret = NoRet
    /\ calls = 0
    /\ sb = NoSb

\* A file: its size (-1 when it does not exist, else 0 or 1 for "at least
\* one byte") and the composition steps its content went through.
NoFile == [size |-> -1, made |-> <<>>]

\* FileManager.verify_file(path), min_size = 1
VerifyFile(f) == f.size >= 1

\* What one step (add_intro_card, add_audio_to_video, add_captions) may do:
\* succeed, return None leaving nothing, return None leaving an empty
\* output file, or raise before it runs ffmpeg (hook_text.replace,
\* caption_text.split, mkdir).
StepOutcomes == {"ok", "none", "partial", "raise"}

\* One step on the file at path src, writing path dst: ffmpeg succeeds only
\* on an input that is a file with content, and the step returns dst only
\* when _run_ffmpeg succeeded and verify_file(dst) holds.
RunStep(files, src, dst, step, outcome) ==
    IF outcome = "raise" THEN [result |-> "raise", files |-> files]
    ELSE IF outcome = "ok" /\ VerifyFile(files[src])
    THEN [result |-> "ok",
          files |-> [files EXCEPT ![dst] =
                        [size |-> 1, made |-> Append(files[src].made, step)]]]
    ELSE IF outcome = "partial"
    THEN [result |-> "none", files |-> [files EXCEPT ![dst] = [size |-> 0, made |-> <<>>]]]
    ELSE [result |-> "none", files |-> files]

\* if not result: intro_path = video_path (and merged_path = intro_path)
CarryForward(result, dst, prev) == IF result = "ok" THEN dst ELSE prev

\* shutil.copy2(merged_path, output_path): raises when the source is missing.
Copy2(files, src, dst) ==
    IF files[src].size = -1 THEN [exc |-> TRUE, files |-> files]
    ELSE [exc |-> FALSE, files |-> [files EXCEPT ![dst] = files[src]]]

ComposePaths == {"video", "step1_intro", "step2_merged", "output"}

\* The original video: a file with content, an empty file, or no file.
VideoFiles == {[size |-> 1, made |-> <<>>], [size |-> 0, made |-> <<>>], NoFile}

ComposeInit ==
    /\ PipelineIdle
    /\ \E video \in VideoFiles, outs \in [{"intro", "merge", "captions"} -> StepOutcomes] :
        unit = [kind |-> "compose", phase |-> "intro", outs |-> outs,
                files |-> [p \in ComposePaths |-> IF p = "video" THEN video ELSE NoFile],
                intro_path |-> "video", merged_path |-> "video",
                inputs |-> <<>>, raised |-> FALSE, result |-> "pending"]

\* Step 1: add_intro_card(video_path, hook, temp/step1_intro.mp4)
ComposeIntro ==
    /\ unit.kind = "compose" /\ unit.phase = "intro"
    /\ LET r == RunStep(unit.files, "video", "step1_intro", "intro", unit.outs["intro"]) IN
       unit' = [unit EXCEPT
                   !.files = r.files,
                   !.inputs = Append(@, "video"),
                   !.raised = (r.result = "raise"),
                   !.intro_path = CarryForward(r.result, "step1_intro", "video"),
                   !.phase = IF r.result = "raise" THEN "return" ELSE "merge"]
    /\ UNCHANGED <<queue, post_log, config, pc, frame, ret, calls, sb>>

\* Step 2: add_audio_to_video(intro_path, audio_path, temp/step2_merged.mp4)
ComposeMerge ==
    /\ unit.kind = "compose" /\ unit.phase = "merge"
    /\ LET r == RunStep(unit.files, unit.intro_path, "step2_merged", "merge",
                        unit.outs["merge"]) IN
       unit' = [unit EXCEPT
                   !.files = r.files,
                   !.inputs = Append(@, unit.intro_path),
                   !.raised = (r.result = "raise"),
                   !.merged_path = CarryForward(r.result, "step2_merged", unit.intro_path),
                   !.phase = IF r.result = "raise" THEN "return" ELSE "captions"]
    /\ UNCHANGED <<queue, post_log, config, pc, frame, ret, calls, sb>>

\* Step 3: add_captions(merged_path, caption, output_path), and the copy of
\* merged_path to output_path when it returns None.
ComposeCaptions ==
    /\ unit.kind = "compose" /\ unit.phase = "captions"
    /\ LET r == RunStep(unit.files, unit.merged_path, "output", "captions",
                        unit.outs["captions"])
           c == Copy2(r.files, unit.merged_path, "output")
       IN
       unit' = [unit EXCEPT
                   !.files = IF r.result = "none" THEN c.files ELSE r.files,
                   !.inputs = Append(@, unit.merged_path),
                   !.raised = (r.result = "raise") \/ (r.result = "none" /\ c.exc),
                   !.phase = "return"]
    /\ UNCHANGED <<queue, post_log, config, pc, frame, ret, calls, sb>>

\* return output_path if verify_file(output_path) else None; except: return
\* None; finally: every file of the temp directory is unlinked.
ComposeReturn ==
    /\ unit.kind = "compose" /\ unit.phase = "return"
    /\ unit' = [unit EXCEPT
                   !.result = IF ~unit.raised /\ VerifyFile(unit.files["output"])
                              THEN "output" ELSE "null",
                   !.files = [@ EXCEPT !["step1_intro"] = NoFile,
                                       !["step2_merged"] = NoFile],
                   !.phase = "out"]
    /\ UNCHANGED <<queue, post_log, config, pc, frame, ret, calls, sb>>

ComposeNext == ComposeIntro \/ ComposeMerge \/ ComposeCaptions \/ ComposeReturn

ComposeSpec == ComposeInit /\ [][ComposeNext]_vars

\* ------------------------------------------ scraper.py: get_top_content
\* A count that is None (a null in the scraped item).
NoCount == -1

\* Python's `x or d` on a count: None and 0 give d.
OrDefault(x, d) == IF x = NoCount \/ x = 0 THEN d ELSE x

Max(a, b) == IF a >= b THEN a ELSE b

Min(a, b) == IF a <= b THEN a ELSE b

\* _engagement_score(item), the quotient kept as numerator and denominator.
EngagementScore(item) ==
    [num |-> OrDefault(item.likes, 0) + OrDefault(item.shares, 0),
     den |-> Max(OrDefault(item.views, 1), 1)]

\* The order of two scores (quotients with positive denominators).
ScoreGreater(a, b) == a.num * b.den > b.num * a.den

\* A sort that puts an item before the earlier items of equal score.
PrecedesOrTies(x, y) == ~ScoreGreater(EngagementScore(y), EngagementScore(x))

\* sort(key=_engagement_score, reverse=True) moves item x before item y,
\* which came earlier, only when x's key is greater: the sort is stable.
Precedes(x, y) == ScoreGreater(EngagementScore(x), EngagementScore(y))

\* The position at which the item at index p of all_content enters the
\* already sorted indices.
RECURSIVE InsertSorted(_, _, _, _)
InsertSorted(all, sorted, p, k) ==
    IF k > Len(sorted) \/ Precedes(all[p], all[sorted[k]])
    THEN SubSeq(sorted, 1, k - 1) \o <<p>> \o SubSeq(sorted, k, Len(sorted))
    ELSE InsertSorted(all, sorted, p, k + 1)

\* all_content.sort(key=self._engagement_score, reverse=True), as the
\* sequence of the items' original indices.
RECURSIVE SortByEngagement(_, _, _)
SortByEngagement(all, p, sorted) ==
    IF p > Len(all) THEN sorted
    ELSE SortByEngagement(all, p + 1, InsertSorted(all, sorted, p, 1))

\* top = all_content[:count]
GetTopContent(all, count) ==
    IF all = <<>> THEN <<>>
    ELSE LET sorted == SortByEngagement(all, 1, <<>>)
         IN SubSeq(sorted, 1, Min(count, Len(sorted)))

\* The scraped items met: null, zero and positive counts, equal scores from
\* different counts, distinct scores.
ItemKinds ==
    {[likes |-> NoCount, shares |-> NoCount, views |-> NoCount],
     [likes |-> 1, shares |-> NoCount, views |-> 0],
     [likes |-> 1, shares |-> 1, views |-> 2],
     [likes |-> 2, shares |-> 1, views |-> 1],
     [likes |-> 1, shares |-> 0, views |-> 2]}

\* get_top_content's count: run_discovery passes 20.
TopCounts == {1, 2, 20}

TopInit ==
    /\ PipelineIdle
    /\ \E count \in TopCounts :
        unit = [kind |-> "top", phase |-> "tiktok", count |-> count,
                all_content |-> <<>>, top |-> <<>>]

\* all_content.extend(self.scrape_viral_<platform>()): the items scraped, or
\* [] when the actor run raised.
ScrapeViral(platform, next, items) ==
    /\ unit.kind = "top" /\ unit.phase = platform
    /\ Len(unit.all_content) + Len(items) <= MaxScraped
    /\ unit' = [unit EXCEPT !.all_content = @ \o items, !.phase = next]
    /\ UNCHANGED <<queue, post_log, config, pc, frame, ret, calls, sb>>

ScrapeViralTiktok(items) == ScrapeViral("tiktok", "instagram", items)

ScrapeViralInstagram(items) == ScrapeViral("instagram", "youtube", items)

ScrapeViralYoutube(items) == ScrapeViral("youtube", "rank", items)

\* The sort and the slice of get_top_content.
RankTop ==
    /\ unit.kind = "top" /\ unit.phase = "rank"
    /\ unit' = [unit EXCEPT !.top = GetTopContent(unit.all_content, unit.count),
                            !.phase = "out"]
    /\ UNCHANGED <<queue, post_log, config, pc, frame, ret, calls, sb>>

TopNext ==
    \/ \E items \in SeqsUpTo(ItemKinds, MaxScraped) : ScrapeViralTiktok(items)
    \/ \E items \in SeqsUpTo(ItemKinds, MaxScraped) : ScrapeViralInstagram(items)
    \/ \E items \in SeqsUpTo(ItemKinds, MaxScraped) : ScrapeViralYoutube(items)
    \/ RankTop

TopSpec == TopInit /\ [][TopNext]_vars

\* ------------------------------------- video_generator.py: _poll_status
\* What one status request may give: a response whose status key holds one
\* of these values ("unknown" when the key is missing), or an exception
\* (the request, raise_for_status or the JSON decoding fails).
PollStatuses == {"completed", "done", "ready", "failed", "error", "processing", "unknown"}

PollResponses == PollStatuses \cup {"exception"}

\* The done_value a caller passes ("completed" is the default).
DoneValues == {"completed", "done"}

\* interval: create_soul_id polls every 15 s, generate_video every 10 s.
PollIntervals == {10, 15}

\* A done test that does not know "ready".
IsDoneValueOnly(current, done_value) == current = done_value

\* if current == done_value or current == "ready"
IsDone(current, done_value) == current = done_value \/ current = "ready"

\* if current in ("failed", "error")
IsFailure(current) == current \in {"failed", "error"}

\* A loop that goes round once more than max_polls.
InRangeInclusive(attempt, max_polls) == attempt <= max_polls

\* for attempt in range(max_polls)
InRange(attempt, max_polls) == attempt < max_polls

PollInit ==
    /\ PipelineIdle
    /\ \E max_polls \in 0..MaxPolls, interval \in PollIntervals, done_value \in DoneValues :
        unit = [kind |-> "poll", phase |-> "loop", max_polls |-> max_polls,
                interval |-> interval, done_value |-> done_value,
                attempt |-> 0, seen |-> <<>>, sleeps |-> <<>>, result |-> "pending"]

\* One turn of the loop: the request, the tests on its status, and
\* time.sleep(interval) when the turn did not return.
PollAttempt(resp) ==
    /\ unit.kind = "poll" /\ unit.phase = "loop"
    /\ InRange(unit.attempt, unit.max_polls)
    /\ unit' =
          IF resp # "exception" /\ IsDone(resp, unit.done_value)
          THEN [unit EXCEPT !.seen = Append(@, resp), !.attempt = @ + 1,
                            !.result = "data", !.phase = "out"]
          ELSE IF resp # "exception" /\ IsFailure(resp)
          THEN [unit EXCEPT !.seen = Append(@, resp), !.attempt = @ + 1,
                            !.result = "null", !.phase = "out"]
          ELSE [unit EXCEPT !.seen = Append(@, resp), !.attempt = @ + 1,
                            !.sleeps = Append(@, unit.interval)]
    /\ UNCHANGED <<queue, post_log, config, pc, frame, ret, calls, sb>>

\* The loop is exhausted: "Polling timed out", return None.
PollTimeout ==
    /\ unit.kind = "poll" /\ unit.phase = "loop"
    /\ ~InRange(unit.attempt, unit.max_polls)
    /\ unit' = [unit EXCEPT !.result = "null", !.phase = "out"]
    /\ UNCHANGED <<queue, post_log, config, pc, frame, ret, calls, sb>>

PollNext == (\E resp \in PollResponses : PollAttempt(resp)) \/ PollTimeout

PollSpec == PollInit /\ [][PollNext]_vars

\* Every request is answered or fails (timeout=30) and every sleep ends: the
\* loop keeps making steps.
PollLiveSpec == PollSpec /\ WF_vars(PollNext)

\* ------------------------------------------------------- dashboard.py
\* The routes of the Flask app.
Endpoints ==
    {"/", "/api/summary", "/api/queue", "/api/posts", "/api/logs",
     "/api/config", "/api/outputs", "/healthz"}

\* The routes whose handler opens a Database.
DbEndpoints == {"/api/summary", "/api/queue", "/api/posts", "/healthz"}

\* A schema script that recreates the tables.
InitDbFresh(q) == <<>>

\* Database.__init__ and _init_db, run by every handle the dashboard opens:
\* CREATE TABLE IF NOT EXISTS leaves the rows of a table that exists.
InitDb(q) == q

\* The HTTP status: a database error is answered 503 by /healthz and is an
\* unhandled exception (500) in the other handlers.
StatusCode(endpoint, db_ok) ==
    IF endpoint \in DbEndpoints /\ ~db_ok
    THEN (IF endpoint = "/healthz" THEN 503 ELSE 500)
    ELSE 200

\* The dashboard runs beside the pipeline, on the same database; the
\* pipeline has its credentials, so that its runs write rows.
DashInit ==
    /\ queue = <<>>
    /\ post_log = <<>>
    /\ config \in {cfg \in Configs : Missing(cfg) = {}}
    /\ pc = "idle"
    /\ frame = NoFrame
    /\ ret = NoRet
    /\ calls = 0
    /\ sb = NoSb
    /\ unit = [kind |-> "dash", last |-> "none", code |-> 0]

\* One GET request to a route, served while the pipeline is at any point.
DashRequest(endpoint, db_ok) ==
    /\ unit.kind = "dash"
    /\ queue' = IF endpoint \in DbEndpoints /\ db_ok THEN InitDb(queue) ELSE queue
    /\ unit' = [unit EXCEPT
                   !.last = endpoint,
                   !.code = StatusCode(endpoint, db_ok)]
    /\ UNCHANGED <<post_log, config, pc, frame, ret, calls, sb>>

DashNext ==
    \/ CliNext
    \/ \E endpoint \in Endpoints, db_ok \in BOOLEAN : DashRequest(endpoint, db_ok)

DashSpec == DashInit /\ [][DashNext]_vars

\* ------------------------------------- orchestrator.py, run_continuous
\* interval_hours, counted in sleeps of the loop.
IntervalTicks == 2

\* The sleeps' worth of time a run of the pipeline may take.
RunTicks == {0, 1}

\* `--mode continuous`: run_continuous() is entered and calls
\* run_full_pipeline() at once.
ContInit ==
    /\ queue = <<>>
    /\ post_log = <<>>
    /\ config \in Configs
    /\ pc = "idle"
    /\ frame = NoFrame
    /\ ret = NoRet
    /\ calls = 0
    /\ sb = NoSb
    /\ unit = [kind |-> "cont", phase |-> "run", now |-> 0, runs |-> 0,
               last_return |-> 0, interval |-> IntervalTicks]

\* The job's next_run: every(interval_hours).hours.do(...) and the
\* rescheduling after each run both count the interval from the moment the
\* run returned.
NextRun(u) == u.last_return + u.interval

\* self.run_full_pipeline(), called by run_continuous or by run_pending().
ContCall(scrape, analysis) ==
    /\ unit.kind = "cont" /\ unit.phase = "run"
    /\ FullCall(scrape, analysis)

\* run_full_pipeline has ended. A summary returned: the job is (re)scheduled
\* and the loop goes on. An exception: nothing in run_continuous catches it
\* (only KeyboardInterrupt, and only around the loop), so it leaves
\* run_continuous.
ContReturn(elapsed) ==
    /\ unit.kind = "cont" /\ unit.phase = "run"
    /\ pc = "done"
    /\ unit.now + elapsed <= MaxTicks
    /\ unit' = IF ret.raised
               THEN [unit EXCEPT !.phase = "crashed", !.now = @ + elapsed]
               ELSE [unit EXCEPT !.phase = "pending", !.now = @ + elapsed,
                                 !.runs = @ + 1,
                                 !.last_return = unit.now + elapsed]
    /\ pc' = "idle"
    /\ ret' = NoRet
    /\ UNCHANGED <<queue, post_log, config, frame, calls, sb>>

\* schedule_lib.run_pending(): the job runs when now >= next_run.
ContRunPending ==
    /\ unit.kind = "cont" /\ unit.phase = "pending"
    /\ unit' = [unit EXCEPT
                   !.phase = IF unit.now >= NextRun(unit) THEN "run" ELSE "sleep"]
    /\ UNCHANGED <<queue, post_log, config, pc, frame, ret, calls, sb>>

\* time.sleep(60)
ContSleep ==
    /\ unit.kind = "cont" /\ unit.phase = "sleep"
    /\ unit.now < MaxTicks
    /\ unit' = [unit EXCEPT !.phase = "pending", !.now = @ + 1]
    /\ UNCHANGED <<queue, post_log, config, pc, frame, ret, calls, sb>>

\* except KeyboardInterrupt: "Continuous mode stopped by user"
ContInterrupt ==
    /\ unit.kind = "cont" /\ unit.phase \in {"pending", "sleep"}
    /\ unit' = [unit EXCEPT !.phase = "stopped"]
    /\ UNCHANGED <<queue, post_log, config, pc, frame, ret, calls, sb>>

ContNext ==
    \/ \E scrape \in Scrapes : \E analysis \in AnalysesFor(scrape.n) :
            ContCall(scrape, analysis)
    \/ GenMark
    \/ \E ext \in GenExts : GenFinish(ext)
    \/ GenReturn
    \/ FullSched
    \/ \E elapsed \in RunTicks : ContReturn(elapsed)
    \/ ContRunPending
    \/ ContSleep
    \/ ContInterrupt

ContSpec == ContInit /\ [][ContNext]_vars

\* --------------------------------------------------------- utils/retry.py
\* The delays tuples a caller may pass, of the values 2 and 4, the empty
\* tuple among them.
DelayTuples == SeqsUpTo({2, 4}, MaxDelays)

\* t[i] on a Python tuple: a negative index counts from the end and an index
\* out of range raises IndexError.
TupleIndex(t, i) ==
    LET j == IF i < 0 THEN i + Len(t) ELSE i IN
    IF j < 0 \/ j >= Len(t)
    THEN [exc |-> TRUE, val |-> 0]
    ELSE [exc |-> FALSE, val |-> t[j + 1]]

\* delays[min(attempt, len(delays) - 1)]
DelayFor(delays, attempt) == TupleIndex(delays, Min(attempt, Len(delays) - 1))

\* retry_sync(func, max_attempts=..., delays=...) or retry_async(...) is
\* called.
RetryInit ==
    /\ PipelineIdle
    /\ \E is_async \in BOOLEAN, max_attempts \in 1..MaxAttempts,
          delays \in DelayTuples :
         unit = [kind |-> "retry", is_async |-> is_async,
                 max_attempts |-> max_attempts, delays |-> delays,
                 attempt |-> 0, seen |-> <<>>, slept |-> <<>>,
                 result |-> "pending", phase |-> "loop"]

\* One turn of `for attempt in range(max_attempts)`: func is called; its
\* value is returned, or its exception is caught and, when an attempt is
\* left, the delay is looked up and slept.
RetryAttempt(ok) ==
    /\ unit.kind = "retry" /\ unit.phase = "loop"
    /\ unit.attempt < unit.max_attempts
    /\ LET d == DelayFor(unit.delays, unit.attempt) IN
       unit' =
          IF ok
          THEN [unit EXCEPT !.seen = Append(@, "ok"), !.result = "value",
                            !.phase = "out"]
          ELSE IF unit.attempt < unit.max_attempts - 1
          THEN IF d.exc
               THEN [unit EXCEPT !.seen = Append(@, "fail"),
                                 !.result = "IndexError", !.phase = "out"]
               ELSE [unit EXCEPT !.seen = Append(@, "fail"),
                                 !.slept = Append(@, d.val),
                                 !.attempt = @ + 1]
          ELSE [unit EXCEPT !.seen = Append(@, "fail"), !.attempt = @ + 1]
    /\ UNCHANGED <<queue, post_log, config, pc, frame, ret, calls, sb>>

\* The loop is exhausted: return None.
RetryExhausted ==
    /\ unit.kind = "retry" /\ unit.phase = "loop"
    /\ unit.attempt >= unit.max_attempts
    /\ unit' = [unit EXCEPT !.result = "none", !.phase = "out"]
    /\ UNCHANGED <<queue, post_log, config, pc, frame, ret, calls, sb>>

RetryNext == (\E ok \in BOOLEAN : RetryAttempt(ok)) \/ RetryExhausted

RetrySpec == RetryInit /\ [][RetryNext]_vars

\* ------------------------------------------------------------ analyzer.py
\* What a Gemini call meets: a JSON object with keys, text that is not JSON,
\* an API error, the JSON object {}, or JSON that is not an object (a list).
GeminiAnswers == {"object", "not_json", "api_error", "empty_object", "list"}

\* GeminiAnalyzer._call_gemini: json.loads(text), {"raw_response": text} on
\* JSONDecodeError, {} on any other exception.
CallGemini(answer) ==
    CASE answer = "object"       -> [type |-> "dict", truthy |-> TRUE, body |-> "object"]
      [] answer = "not_json"     -> [type |-> "dict", truthy |-> TRUE, body |-> "raw_response"]
      [] answer = "api_error"    -> [type |-> "dict", truthy |-> FALSE, body |-> "none"]
      [] answer = "empty_object" -> [type |-> "dict", truthy |-> FALSE, body |-> "none"]
      [] answer = "list"         -> [type |-> "list", truthy |-> TRUE, body |-> "list"]

\* analyze_content(content_list) is called; an item is its url, 1 or 2.
AnalyzeInit ==
    /\ PipelineIdle
    /\ \E content_list \in SeqsUpTo({1, 2}, MaxScraped) :
         unit = [kind |-> "analyze", content_list |-> content_list, i |-> 0,
                 answers |-> <<>>, results |-> <<>>, sleeps |-> 0,
                 raised |-> FALSE, phase |-> "loop"]

\* One turn of `for i, item in enumerate(content_list)`: the call, the
\* append `if analysis`, the 2-second sleep before the next item.
\* analysis["source_url"] = ... raises TypeError when analysis is a list.
AnalyzeItem(answer) ==
    /\ unit.kind = "analyze" /\ unit.phase = "loop"
    /\ unit.i < Len(unit.content_list)
    /\ LET item == unit.content_list[unit.i + 1]
           analysis == CallGemini(answer)
       IN unit' =
            IF analysis.truthy /\ analysis.type # "dict"
            THEN [unit EXCEPT !.answers = Append(@, answer), !.raised = TRUE,
                              !.phase = "out"]
            ELSE [unit EXCEPT
                     !.answers = Append(@, answer),
                     !.results = IF analysis.truthy
                                 THEN Append(@, [source_url |-> item,
                                                 body |-> analysis.body])
                                 ELSE @,
                     !.sleeps = IF unit.i < Len(unit.content_list) - 1
                                THEN @ + 1 ELSE @,
                     !.i = @ + 1]
    /\ UNCHANGED <<queue, post_log, config, pc, frame, ret, calls, sb>>

\* return results
AnalyzeReturn ==
    /\ unit.kind = "analyze" /\ unit.phase = "loop"
    /\ unit.i >= Len(unit.content_list)
    /\ unit' = [unit EXCEPT !.phase = "out"]
    /\ UNCHANGED <<queue, post_log, config, pc, frame, ret, calls, sb>>

AnalyzeNext == (\E answer \in GeminiAnswers : AnalyzeItem(answer)) \/ AnalyzeReturn

AnalyzeSpec == AnalyzeInit /\ [][AnalyzeNext]_vars

\* ------------------------------------ video_generator.py, create_soul_id
\* A test of the polling result that lets a timeout through.
PollAlwaysSucceeded(result) == TRUE

\* `if not result` on what _poll_status returned: the data, or None.
PollSucceeded(result) == result = "data"

\* create_soul_id(photo_paths) is called; stored is the SOUL_ID of .env and
\* of Config before the call.
SoulInit ==
    /\ PipelineIdle
    /\ \E api_key \in BOOLEAN, photos \in 0..MaxPhotos, stored \in {"", "old"} :
         unit = [kind |-> "soul", api_key |-> api_key, photos |-> photos,
                 before |-> stored, stored |-> stored, phase |-> "start",
                 api_calls |-> 0, created |-> "none", polled |-> "none",
                 env_calls |-> 0, result |-> "pending"]

\* The checks of the API key and of the number of photos (fewer than 5 is
\* an error), and the opening of the photo files, which is outside the try
\* block.
SoulCheck(open_ok) ==
    /\ unit.kind = "soul" /\ unit.phase = "start"
    /\ unit' = IF ~unit.api_key \/ unit.photos < 5
               THEN [unit EXCEPT !.result = "null", !.phase = "out"]
               ELSE IF ~open_ok
               THEN [unit EXCEPT !.result = "raised", !.phase = "out"]
               ELSE [unit EXCEPT !.phase = "post"]
    /\ UNCHANGED <<queue, post_log, config, pc, frame, ret, calls, sb>>

\* soul_id = data.get("soul_id", data.get("id", ""))
HasSoulId(resp) == resp \in {"soul_id", "id"}

\* requests.post(.../v1/soul-id/create): an id in the answer, under
\* "soul_id" or under "id", no id (return None), or an exception (caught:
\* return None).
SoulPost(resp) ==
    /\ unit.kind = "soul" /\ unit.phase = "post"
    /\ unit' = IF HasSoulId(resp)
               THEN [unit EXCEPT !.api_calls = @ + 1, !.created = resp,
                                 !.phase = "poll"]
               ELSE [unit EXCEPT !.api_calls = @ + 1, !.created = resp,
                                 !.result = "null", !.phase = "out"]
    /\ UNCHANGED <<queue, post_log, config, pc, frame, ret, calls, sb>>

\* result = self._poll_status(poll_url, interval=15, max_polls=20)
SoulPoll(result) ==
    /\ unit.kind = "soul" /\ unit.phase = "poll"
    /\ unit' = IF PollSucceeded(result)
               THEN [unit EXCEPT !.api_calls = @ + 1, !.polled = result,
                                 !.phase = "save"]
               ELSE [unit EXCEPT !.api_calls = @ + 1, !.polled = result,
                                 !.result = "null", !.phase = "out"]
    /\ UNCHANGED <<queue, post_log, config, pc, frame, ret, calls, sb>>

\* Config.update_env("SOUL_ID", soul_id): .env is rewritten and the
\* attribute set, or opening .env fails and the except clause returns None.
SoulSave(env_ok) ==
    /\ unit.kind = "soul" /\ unit.phase = "save"
    /\ unit' = IF env_ok
               THEN [unit EXCEPT !.env_calls = @ + 1, !.stored = "new",
                                 !.result = "id", !.phase = "out"]
               ELSE [unit EXCEPT !.env_calls = @ + 1, !.result = "null",
                                 !.phase = "out"]
    /\ UNCHANGED <<queue, post_log, config, pc, frame, ret, calls, sb>>

SoulIdNext ==
    \/ \E open_ok \in BOOLEAN : SoulCheck(open_ok)
    \/ \E resp \in {"soul_id", "id", "no_id", "error"} : SoulPost(resp)
    \/ \E result \in {"data", "null"} : SoulPoll(result)
    \/ \E env_ok \in BOOLEAN : SoulSave(env_ok)

SoulIdSpec == SoulInit /\ [][SoulIdNext]_vars

\* ------------------- orchestrator.py, run_generation: one item's try block
\* The script column of a row: the text of a JSON object (with or without a
\* "hook" key and script text), of another JSON value, text that is not
\* JSON (empty or not), or NULL.
StoredScripts ==
    [text : {"object"}, hook : BOOLEAN, full_script : BOOLEAN]
    \cup [text : {"string", "list", "number", "null", "not_json", "empty", "NULL"},
          hook : {FALSE}, full_script : {FALSE}]

\* json.loads(script_raw) if isinstance(script_raw, str) else script_raw,
\* and the fallback of `except json.JSONDecodeError`; hook and full_script
\* tell whether the value holds text under these keys.
ParseScript(script_raw) ==
    CASE script_raw.text = "NULL" ->
             [type |-> "NoneType", fallback |-> FALSE, hook |-> FALSE, full_script |-> FALSE]
      [] script_raw.text = "not_json" ->
             [type |-> "dict", fallback |-> TRUE, hook |-> TRUE, full_script |-> TRUE]
      [] script_raw.text = "empty" ->
             [type |-> "dict", fallback |-> TRUE, hook |-> FALSE, full_script |-> FALSE]
      [] script_raw.text = "object" ->
             [type |-> "dict", fallback |-> FALSE, hook |-> script_raw.hook,
              full_script |-> script_raw.full_script]
      [] script_raw.text = "null" ->
             [type |-> "NoneType", fallback |-> FALSE, hook |-> FALSE, full_script |-> FALSE]
      [] OTHER ->
             [type |-> script_raw.text, fallback |-> FALSE, hook |-> FALSE,
              full_script |-> FALSE]

\* A value on which .get never fails.
HasGetAlways(script) == TRUE

\* script.get("hook", ...): only a dict has the method; on any other value
\* the call raises AttributeError.
HasGet(script) == script.type = "dict"

\* A test that takes every returned value for a path.
NoPathNever(path) == FALSE

\* if not video_path / if not audio_path / if not final_path
NoPath(path) == path = NULL

\* The item has been marked generating and its try block is entered.
ItemInit ==
    /\ PipelineIdle
    /\ \E script_raw \in StoredScripts, higgsfield \in BOOLEAN, elevenlabs \in BOOLEAN :
         unit = [kind |-> "item", script_raw |-> script_raw,
                 higgsfield |-> higgsfield, elevenlabs |-> elevenlabs,
                 script |-> ParseScript(script_raw), phase |-> "parse",
                 invoked |-> <<>>, video_path |-> NULL, audio_path |-> NULL,
                 final_path |-> NULL, status |-> "generating", fields |-> {}]

\* Parse script, hook = script.get("hook", ...): AttributeError goes to the
\* except clause, update_content_status(qid, "failed").
ItemParse ==
    /\ unit.kind = "item" /\ unit.phase = "parse"
    /\ unit' = IF HasGet(unit.script)
               THEN [unit EXCEPT !.phase = "video"]
               ELSE [unit EXCEPT !.status = "failed", !.phase = "out"]
    /\ UNCHANGED <<queue, post_log, config, pc, frame, ret, calls, sb>>

\* Phase 2: video_gen.generate_video(hook, soul_id); None without the API
\* key or on any failure.
ItemVideo(ok) ==
    /\ unit.kind = "item" /\ unit.phase = "video"
    /\ LET video_path == IF unit.higgsfield /\ ok THEN 1 ELSE NULL IN
       unit' = IF NoPath(video_path)
               THEN [unit EXCEPT !.invoked = Append(@, "generate_video"),
                                 !.status = "failed", !.phase = "out"]
               ELSE [unit EXCEPT !.invoked = Append(@, "generate_video"),
                                 !.video_path = video_path, !.phase = "voice"]
    /\ UNCHANGED <<queue, post_log, config, pc, frame, ret, calls, sb>>

\* Phase 3: voice.synthesize_script(script); None without script text,
\* without a client or on an API failure; an exception goes to the except
\* clause.
ItemVoice(out) ==
    /\ unit.kind = "item" /\ unit.phase = "voice"
    /\ LET has_text == unit.script.full_script \/ unit.script.hook
           audio_path == IF has_text /\ unit.elevenlabs /\ out = "ok" THEN 2 ELSE NULL
       IN
       unit' = IF out = "exc"
               THEN [unit EXCEPT !.invoked = Append(@, "synthesize_script"),
                                 !.status = "failed", !.phase = "out"]
               ELSE IF NoPath(audio_path)
               THEN [unit EXCEPT !.invoked = Append(@, "synthesize_script"),
                                 !.status = "failed", !.fields = {"video_path"},
                                 !.phase = "out"]
               ELSE [unit EXCEPT !.invoked = Append(@, "synthesize_script"),
                                 !.audio_path = audio_path, !.phase = "compose"]
    /\ UNCHANGED <<queue, post_log, config, pc, frame, ret, calls, sb>>

\* Phase 4: editor.compose_final(...), and the update that ends the item.
ItemCompose(out) ==
    /\ unit.kind = "item" /\ unit.phase = "compose"
    /\ LET final_path == IF out = "ok" THEN 3 ELSE NULL IN
       unit' = IF out = "exc"
               THEN [unit EXCEPT !.invoked = Append(@, "compose_final"),
                                 !.status = "failed", !.phase = "out"]
               ELSE IF NoPath(final_path)
               THEN [unit EXCEPT !.invoked = Append(@, "compose_final"),
                                 !.status = "failed",
                                 !.fields = {"video_path", "audio_path"},
                                 !.phase = "out"]
               ELSE [unit EXCEPT !.invoked = Append(@, "compose_final"),
                                 !.final_path = final_path,
                                 !.status = "generated",
                                 !.fields = {"video_path", "audio_path",
                                             "final_video_path"},
                                 !.phase = "out"]
    /\ UNCHANGED <<queue, post_log, config, pc, frame, ret, calls, sb>>

ItemNext ==
    \/ ItemParse
    \/ \E ok \in BOOLEAN : ItemVideo(ok)
    \/ \E out \in {"ok", "null", "exc"} : ItemVoice(out)
    \/ \E out \in {"ok", "null", "exc"} : ItemCompose(out)

ItemSpec == ItemInit /\ [][ItemNext]_vars

\* ------------------------------- run_scheduling on any stored rows
\* The rows run_scheduling may read: any status, with or without a final
\* video, a submission id only on a scheduled row.
StoredRows ==
    {[NewRow("object") EXCEPT !.status = st, !.final_video_path = f,
                              !.post_submission_id = IF st = "scheduled" THEN 1 ELSE NULL] :
        st \in Statuses, f \in {NULL, 1}}

\* The table holds any such rows when run_scheduling is called.
RowsInit ==
    /\ queue \in SeqsUpTo(StoredRows, MaxItems)
    /\ post_log = <<>>
    /\ config \in {cfg \in Configs : Missing(cfg) \subseteq {"blotato"}}
    /\ pc = "idle"
    /\ frame = NoFrame
    /\ ret = NoRet
    /\ calls = 0
    /\ sb = NoSb
    /\ unit = [kind |-> "rows"]

\* run_scheduling(queue_ids), once, with any id list.
RowsSched(ids) ==
    /\ unit.kind = "rows"
    /\ calls = 0
    /\ SchedCall(ids)

RowsNext == (\E ids \in IdLists : RowsSched(ids)) \/ Report

RowsSpec == RowsInit /\ [][RowsNext]_vars

\* --------------------------------- repeated runs of the command line
\* The items whose video a schedule_post call of the ended scheduling run
\* accepted: the batch positions where upload and post succeeded. A run
\* that raised (POSTS_PER_DAY = 0) raised before its first upload.
PostedBy(r) ==
    IF r.raised THEN <<>>
    ELSE SelectSeq([k \in 1..Len(r.batch) |->
                       IF r.outs[k] = "ok" THEN r.batch[k] ELSE NULL],
                   LAMBDA id : id # NULL)

\* The command line is used again and again on one database; posted counts,
\* per item, the schedule_post calls that accepted its video.
RepeatInit ==
    /\ queue = <<>>
    /\ post_log = <<>>
    /\ config \in {cfg \in Configs : Missing(cfg) = {}}
    /\ pc = "idle"
    /\ frame = NoFrame
    /\ ret = NoRet
    /\ calls = 0
    /\ sb = NoSb
    /\ unit = [kind |-> "repeat", posted |-> [id \in 1..MaxItems |-> 0]]

\* A command has ended: the posts it made are counted and the program is
\* ready for the next command.
RepeatReport ==
    /\ unit.kind = "repeat"
    /\ pc = "done"
    /\ LET posts == PostedBy(ret) IN
       unit' = [unit EXCEPT
                   !.posted = [id \in 1..MaxItems |->
                                  @[id] + Cardinality({k \in 1..Len(posts) :
                                                          posts[k] = id})]]
    /\ pc' = "idle"
    /\ ret' = NoRet
    /\ UNCHANGED <<queue, post_log, config, frame, calls, sb>>

RepeatNext ==
    \/ \E scrape \in Scrapes : \E analysis \in AnalysesFor(scrape.n) :
            Discovery(scrape, analysis)
    \/ CliGeneration
    \/ GenMark
    \/ \E ext \in GenExts : GenFinish(ext)
    \/ GenReturn
    \/ CliScheduling
    \/ \E scrape \in Scrapes : \E analysis \in AnalysesFor(scrape.n) :
            FullCall(scrape, analysis)
    \/ FullSched
    \/ RepeatReport

RepeatSpec == RepeatInit /\ [][RepeatNext]_vars

\* ------------------------------ the command line, with interrupted runs
\* Ctrl+C (KeyboardInterrupt is not an Exception: no except clause of the
\* pipeline catches it) or a kill ends the process during a generation; the
\* item being generated stays in status generating.
Interrupted ==
    /\ pc = "gen"
    /\ pc' = "idle"
    /\ frame' = NoFrame
    /\ ret' = NoRet
    /\ UNCHANGED <<queue, post_log, config, calls, sb, unit>>

TerminalNext == CliNext \/ Interrupted

TerminalSpec == Init /\ [][TerminalNext]_vars

\* ------------------------------------------------------------ the claims
InCall == pc \in {"gen", "sched"}

\* C1: every status change of a content item is pending -> generating,
\* generating -> generated, generating -> failed or generated -> scheduled,
\* whatever id lists run_generation and run_scheduling are called with.
\* run_generation marks every existing id generating without reading its
\* status, so a generated, failed or scheduled item goes back to generating.
AllowedChanges ==
    {<<"pending", "generating">>, <<"generating", "generated">>,
     <<"generating", "failed">>, <<"generated", "scheduled">>}

C1_StatusChanges ==
    [][\A i \in 1..Len(queue) :
          queue'[i].status # queue[i].status
              => <<queue[i].status, queue'[i].status>> \in AllowedChanges]_vars

\* C2: between the orchestrator's calls, an item's final_video_path is set
\* if and only if its status is generated or scheduled.
C2_FinalPathIffGenerated ==
    ~InCall =>
        \A i \in 1..Len(queue) :
            (queue[i].final_video_path # NULL)
                <=> (queue[i].status \in {"generated", "scheduled"})

\* C3: run_scheduling marks scheduled, and returns, exactly the items of the
\* batch whose own upload and schedule_post succeeded, each with the
\* submission id answered for its own video. Stated for batches that hold
\* each item once.
Distinct(seq) == \A j, k \in 1..Len(seq) : j # k => seq[j] # seq[k]

C3_SchedulesOwnSubmission ==
    (pc = "done" /\ ret.op \in {"scheduling", "full"} /\ ~ret.raised
        /\ Distinct(ret.batch)) =>
        \A k \in 1..Len(ret.batch) :
            LET row == queue[ret.batch[k]] IN
            /\ (ret.outs[k] = "ok") <=> (row.status = "scheduled")
            /\ (ret.outs[k] = "ok") <=> (ret.batch[k] \in Range(ret.val))
            /\ row.status = "scheduled"
                  => row.post_submission_id = SubIdFor(row.final_video_path)

\* C4, as stated: for postsPerDay >= 1 the video at batch index i is posted
\* for day floor(i / postsPerDay) + 1 after today, at slot i mod 3 of
\* 09:00, 13:00, 18:00.
C4_SlotIsIndexMod3 ==
    (sb.phase = "out" /\ sb.ppd >= 1) =>
        \A k \in 1..Len(sb.result.requests) :
            LET req == sb.result.requests[k] IN
            /\ req.time[1] = sb.now.day + (req.index \div sb.ppd) + 1
            /\ req.time[2] = <<9, 13, 18>>[(req.index % 3) + 1]

\* C4, amended: the slot is (i mod postsPerDay) mod 3: the cycle through
\* 09:00, 13:00, 18:00 starts again each day.
C4_SlotIsIndexInDayMod3 ==
    (sb.phase = "out" /\ sb.ppd >= 1) =>
        \A k \in 1..Len(sb.result.requests) :
            LET req == sb.result.requests[k] IN
            /\ req.time[1] = sb.now.day + (req.index \div sb.ppd) + 1
            /\ req.time[2] = <<9, 13, 18>>[((req.index % sb.ppd) % 3) + 1]

\* A batch posted at 2 a day whose index 2 is posted: slot 0, not slot 2.
C4_Witness ==
    /\ sb.phase = "out"
    /\ sb.ppd = 2
    /\ \E k \in 1..Len(sb.result.requests) : sb.result.requests[k].index = 2

\* C5: with postsPerDay = 3, index 0 is posted for day+1 09:00, index 1 for
\* day+1 13:00, index 2 for day+1 18:00 and index 3 for day+2 09:00, with
\* minute and second zero and no microseconds.
C5_ThreePerDay ==
    (sb.phase = "out" /\ sb.ppd = 3) =>
        \A k \in 1..Len(sb.result.requests) :
            LET req == sb.result.requests[k]
                d == sb.now.day
            IN /\ req.index = 0 => req.time = <<d + 1, 9, 0, 0>>
               /\ req.index = 1 => req.time = <<d + 1, 13, 0, 0>>
               /\ req.index = 2 => req.time = <<d + 1, 18, 0, 0>>
               /\ req.index = 3 => req.time = <<d + 2, 9, 0, 0>>

\* A batch posted at 3 a day, at a clock with minutes and microseconds, whose
\* indices 0 to 3 are all posted.
C5_Witness ==
    /\ sb.phase = "out"
    /\ sb.ppd = 3
    /\ sb.now.minute # 0
    /\ sb.now.microsecond # 0
    /\ {0, 1, 2, 3} \subseteq
          {sb.result.requests[k].index : k \in 1..Len(sb.result.requests)}

\* C6: for postsPerDay >= 1 every schedule time schedule_batch submits is on
\* one of the 7 days after today.
C6_WithinSevenDays ==
    (sb.phase = "out" /\ sb.ppd >= 1) =>
        \A k \in 1..Len(sb.result.requests) :
            (sb.result.requests[k].time[1] - sb.now.day) \in 1..7

\* C7: with a Soul ID, when run_generation returns, every input id that
\* exists is generated or failed, and the returned ids are exactly the input
\* ids now generated.
C7_BatchCompletes ==
    (pc = "done" /\ ret.op = "generation" /\ config.soul_id) =>
        /\ Range(ret.val) \subseteq Range(ret.ids)
        /\ \A k \in 1..Len(ret.ids) :
              Exists(queue, ret.ids[k]) =>
                  /\ queue[ret.ids[k]].status \in {"generated", "failed"}
                  /\ (ret.ids[k] \in Range(ret.val))
                        <=> (queue[ret.ids[k]].status = "generated")

\* C8: an item run_generation has just marked failed carries the video path
\* and the audio path produced for it in this run.
C8_FailedKeepsArtifacts ==
    (pc = "gen" /\ frame.last # NULL /\ queue[frame.last].status = "failed") =>
        /\ frame.video # NULL => queue[frame.last].video_path = frame.video
        /\ frame.audio # NULL => queue[frame.last].audio_path = frame.audio

\* The phase that has just ended constructed a component without its
\* credential: the scraper in discovery, the video generator or the voice in
\* generation, the scheduler in scheduling.
MissingCredentialMet ==
    /\ pc = "done"
    /\ \/ ret.op \in {"discovery", "full"} /\ ~config.apify
       \/ ret.op = "generation" /\ config.soul_id
            /\ (~config.higgsfield \/ ~config.elevenlabs)
       \/ ret.op = "scheduling" /\ ~config.blotato

\* C9, as stated: a missing credential met by a phase is raised to the
\* phase's caller.
C9_MissingCredentialRaises == MissingCredentialMet => ret.raised

\* C9, amended: a missing credential never reaches the caller of a phase.
\* The phase returns, and returns an empty result: run_discovery an empty id
\* list with no row added when the scraper's or the analyzer's is missing
\* (their constructors raise, and the phase catches it), run_generation an
\* empty list when the video generator's, the voice's or the Soul ID is
\* missing, run_scheduling an empty list with nothing posted when the
\* scheduler's is missing, the full run a summary that counts nothing
\* scheduled when any is missing.
C9_MissingCredentialReturnsEmpty ==
    (pc = "done" /\ Missing(config) # {}) =>
        /\ ~ret.raised
        /\ ret.op = "discovery" /\ (~config.apify \/ ~config.gemini)
              => ret.val = <<>> /\ queue = <<>>
        /\ ret.op = "generation"
              /\ (~config.higgsfield \/ ~config.elevenlabs \/ ~config.soul_id)
              => ret.val = <<>>
        /\ ret.op = "scheduling" /\ ~config.blotato
              => ret.val = <<>> /\ post_log = <<>>
        /\ ret.op = "full" => ret.summary.scheduled = 0 /\ post_log = <<>>

\* A discovery that has ended with no APIFY_API_TOKEN.
C9_Witness == pc = "done" /\ ret.op = "discovery" /\ ~config.apify

\* C10: with every credential and the Soul ID set, run_full_pipeline
\* returns its summary and never raises, whatever the external calls do and
\* whatever the configuration is.
C10_FullPipelineReturns ==
    (pc = "done" /\ ret.op = "full" /\ Missing(config) = {}) => ~ret.raised

\* The steps of a composition that succeeded, in order.
StepsDone(u) ==
    LET names == <<"intro", "merge", "captions">>
        ok(k) == u.outs[names[k]] = "ok"
    IN (IF ok(1) THEN <<"intro">> ELSE <<>>)
           \o (IF ok(2) THEN <<"merge">> ELSE <<>>)
           \o (IF ok(3) THEN <<"captions">> ELSE <<>>)

\* Each step's input is the output of the latest earlier step that returned
\* a path, or the original video.
ComposeChained(u) ==
    /\ Len(u.inputs) >= 1 => u.inputs[1] = "video"
    /\ Len(u.inputs) >= 2 =>
          u.inputs[2] = IF u.outs["intro"] = "ok" THEN "step1_intro" ELSE "video"
    /\ Len(u.inputs) >= 3 =>
          u.inputs[3] = IF u.outs["merge"] = "ok" THEN "step2_merged"
                        ELSE IF u.outs["intro"] = "ok" THEN "step1_intro"
                        ELSE "video"

ComposeDone == unit.kind = "compose" /\ unit.phase = "out"

GoodVideo(u) == VerifyFile([size |-> u.files["video"].size, made |-> <<>>])

\* C11, as stated: whichever of the three steps fail, each step's input is
\* the output of the latest earlier success (or the original video), and
\* when the original video is a non-empty file compose_final returns the
\* output path with a file of at least 1 byte there.
C11_AlwaysYieldsFinal ==
    (ComposeDone /\ GoodVideo(unit)) =>
        /\ ComposeChained(unit)
        /\ unit.result = "output"
        /\ VerifyFile(unit.files["output"])

\* What holds of compose_final (C11): when every failing step fails by
\* returning None the final file is there, and is the original video taken
\* through the steps that succeeded; a step that raises ends the
\* composition, which returns None.
ComposeDegradesUnlessRaised ==
    (ComposeDone /\ GoodVideo(unit)) =>
        /\ ComposeChained(unit)
        /\ (\A n \in DOMAIN unit.outs : unit.outs[n] # "raise") =>
              /\ unit.result = "output"
              /\ VerifyFile(unit.files["output"])
              /\ unit.files["output"].made = StepsDone(unit)
        /\ unit.raised => unit.result = "null"

\* C12: a run_discovery whose scrape yields no item (nothing scraped, or
\* the scraper raised) returns an empty id list, does not call
\* analyze_content and adds no row to content_queue.
C12_EmptyScrapeQueuesNothing ==
    [][(pc = "idle" /\ pc' = "done" /\ ret'.op = "discovery" /\ ret'.raw = 0) =>
          /\ ret'.val = <<>>
          /\ ~ret'.analyzed
          /\ ~ret'.raised
          /\ queue' = queue]_vars

\* A discovery that scraped nothing, with both credentials set and rows
\* already in the queue.
C12_Witness ==
    /\ pc = "done"
    /\ ret.op = "discovery"
    /\ ret.raw = 0
    /\ config.apify /\ config.gemini
    /\ queue # <<>>

\* C13: with no Soul ID, a call of run_generation on any id list (a step
\* that enters its loop or returns from it) returns an empty list at once,
\* without a video, voice or composition call (no item is taken up), and
\* changes no row of content_queue.
C13_NoSoulIdNoGeneration ==
    [][(pc = "idle" /\ ~config.soul_id
            /\ (pc' = "gen" \/ ret'.op = "generation")) =>
          /\ pc' = "done"
          /\ ret'.val = <<>>
          /\ queue' = queue
          /\ post_log' = post_log]_vars

\* A run_generation without Soul ID over a list that names a generated or
\* scheduled item.
C13_Witness ==
    /\ pc = "done"
    /\ ret.op = "generation"
    /\ ~config.soul_id
    /\ \E k \in 1..Len(ret.ids) :
          /\ Exists(queue, ret.ids[k])
          /\ queue[ret.ids[k]].status \in {"generated", "scheduled"}

\* The score of the claim, (likes + shares) / max(views, 1) with a null
\* count read as 0 likes, 0 shares, 1 view, compared by cross-multiplying.
ClaimNum(item) ==
    (IF item.likes = NoCount THEN 0 ELSE item.likes)
        + (IF item.shares = NoCount THEN 0 ELSE item.shares)

ClaimDen(item) ==
    LET views == IF item.views = NoCount THEN 1 ELSE item.views
    IN IF views >= 1 THEN views ELSE 1

ClaimHigher(x, y) == ClaimNum(x) * ClaimDen(y) > ClaimNum(y) * ClaimDen(x)

\* C14: get_top_content returns the first `count` items of the combined
\* list ordered by descending score, items of equal score in input order;
\* no omitted item has a higher score than a returned one.
C14_TopByEngagement ==
    (unit.kind = "top" /\ unit.phase = "out") =>
        LET all == unit.all_content
            top == unit.top
            n == Len(all)
        IN /\ Len(top) = (IF unit.count <= n THEN unit.count ELSE n)
           /\ \A k \in 1..Len(top) : top[k] \in 1..n
           /\ \A j, k \in 1..Len(top) :
                 j < k => \/ ClaimHigher(all[top[j]], all[top[k]])
                          \/ /\ ~ClaimHigher(all[top[k]], all[top[j]])
                             /\ top[j] < top[k]
           /\ \A o \in (1..n) \ Range(top) : \A k \in 1..Len(top) :
                 \/ ClaimHigher(all[top[k]], all[o])
                 \/ /\ ~ClaimHigher(all[o], all[top[k]])
                    /\ top[k] < o

\* A ranking of three items in which two different items tie and a later
\* item scores higher, cut to two.
C14_Witness ==
    /\ unit.kind = "top" /\ unit.phase = "out"
    /\ unit.count = 2
    /\ Len(unit.all_content) = 3
    /\ \E j, k \in 1..3 :
          /\ j < k
          /\ unit.all_content[j] # unit.all_content[k]
          /\ ~ClaimHigher(unit.all_content[j], unit.all_content[k])
          /\ ~ClaimHigher(unit.all_content[k], unit.all_content[j])
          /\ {j, k} = Range(unit.top)
    /\ unit.top # <<1, 2>>

\* A status that ends the polling of u.
PollTerminal(u, status) ==
    status # "exception" /\ (status = u.done_value \/ status = "ready"
                             \/ status \in {"failed", "error"})

\* C15: _poll_status ends, having made at most max_polls status requests
\* and waited the same interval after each attempt that did not end the
\* polling, and it returns null when max_polls attempts met no terminal
\* status.
C15_PollWithinBudget ==
    /\ [](unit.kind = "poll" =>
            /\ Len(unit.seen) <= unit.max_polls
            /\ \A k \in 1..Len(unit.sleeps) : unit.sleeps[k] = unit.interval
            /\ Len(unit.sleeps)
                  = Cardinality({k \in 1..Len(unit.seen) :
                                    ~PollTerminal(unit, unit.seen[k])})
            /\ (unit.phase = "out"
                  /\ \A k \in 1..Len(unit.seen) : ~PollTerminal(unit, unit.seen[k]))
                 => unit.result = "null" /\ Len(unit.seen) = unit.max_polls)
    /\ <>(unit.kind = "poll" /\ unit.phase = "out")

\* A polling that used its whole budget of at least two attempts on
\* non-terminal answers and failed requests.
C15_Witness ==
    /\ unit.kind = "poll" /\ unit.phase = "out"
    /\ unit.max_polls >= 2
    /\ Len(unit.seen) = unit.max_polls
    /\ "exception" \in Range(unit.seen)
    /\ "processing" \in Range(unit.seen)
    /\ unit.result = "null"

\* C16: _poll_status returns the data exactly when a done_value or "ready"
\* status comes, within max_polls attempts, before any "failed" or "error"
\* status; a "failed" or "error" status ends the polling at once with null;
\* a request that raises uses one attempt and the polling goes on.
C16_PollOutcome ==
    (unit.kind = "poll") =>
        LET seen == unit.seen
            done(k) == seen[k] # "exception"
                          /\ (seen[k] = unit.done_value \/ seen[k] = "ready")
            bad(k) == seen[k] \in {"failed", "error"}
        IN /\ unit.phase = "out" =>
                 ((unit.result = "data") <=>
                     \E k \in 1..Len(seen) :
                         /\ k <= unit.max_polls
                         /\ done(k)
                         /\ \A j \in 1..(k - 1) : ~bad(j))
           /\ \A k \in 1..Len(seen) :
                 bad(k) => k = Len(seen) /\ unit.phase = "out" /\ unit.result = "null"
           /\ \A k \in 1..Len(seen) :
                 seen[k] = "exception" =>
                     \/ k < Len(seen)
                     \/ unit.phase = "loop"
                     \/ (k = unit.max_polls /\ unit.result = "null")

\* A polling that returned the data on "ready" after a failed request.
C16_Witness ==
    /\ unit.kind = "poll" /\ unit.phase = "out"
    /\ unit.result = "data"
    /\ Len(unit.seen) >= 2
    /\ unit.seen[1] = "exception"
    /\ unit.seen[Len(unit.seen)] = "ready"

\* C17: a run_scheduling call adds to post_log, for each item it marks
\* scheduled, exactly one row per platform of the platform list, carrying
\* the item's id, the item's submission id and the status scheduled, and no
\* row for any other item.
C17_OneLogRowPerPlatform ==
    [][(ret'.op \in {"scheduling", "full"} /\ ~ret'.raised) =>
          LET new == SubSeq(post_log', Len(post_log) + 1, Len(post_log'))
              rows(qid, p) == {k \in 1..Len(new) :
                                  new[k].content_id = qid /\ new[k].platform = p}
          IN /\ \A k \in 1..Len(new) :
                    /\ new[k].content_id \in Range(ret'.val)
                    /\ new[k].status = "scheduled"
                    /\ new[k].post_id = queue'[new[k].content_id].post_submission_id
             /\ \A qid \in Range(ret'.val) : \A p \in Range(Platforms) :
                    Cardinality(rows(qid, p)) = 1]_vars

\* A step that serves a dashboard request.
Served == unit.kind = "dash" /\ unit' # unit

\* C18: no request to a dashboard route changes a row of content_queue, a
\* row of post_log or the configuration (the output files are the paths the
\* rows hold).
C18_DashboardReadOnly ==
    [][Served => queue' = queue /\ post_log' = post_log /\ config' = config]_vars

\* /api/queue answered with rows while a generation is under way.
C18_Witness ==
    /\ unit.kind = "dash"
    /\ unit.last = "/api/queue"
    /\ unit.code = 200
    /\ queue # <<>>
    /\ pc = "gen"
    /\ frame.marked

\* A step that starts a run of the full pipeline in continuous mode.
ContStarts == unit.kind = "cont" /\ calls' = calls + 1

\* C19: continuous mode runs the pipeline at once and again each time an
\* interval has passed since the previous run returned; it ends only when
\* interrupted; a run starts only when no run is under way.
C19_RunsEveryInterval ==
    /\ [](unit.kind = "cont" => unit.phase \in {"run", "pending", "sleep", "stopped"})
    /\ [][ContStarts =>
            /\ pc = "idle" /\ frame = NoFrame
            /\ unit.runs = 0 \/ unit.now >= unit.last_return + unit.interval]_vars

\* The runs are sequential and an interval apart, whatever ends the mode.
ContSequentialAndSpaced ==
    [][ContStarts =>
            /\ pc = "idle" /\ frame = NoFrame
            /\ unit.runs = 0 \/ unit.now >= unit.last_return + unit.interval]_vars

\* What the retry helpers promise of a call that has ended.
RetryContract(u) ==
    LET n == Len(u.seen) IN
    /\ u.result \in {"value", "none"}
    /\ n <= u.max_attempts
    /\ \A k \in 1..(n - 1) : u.seen[k] = "fail"
    /\ u.result = "value" <=> (n >= 1 /\ u.seen[n] = "ok")
    /\ u.result = "none" <=> (n = u.max_attempts /\ u.seen[n] = "fail")

\* C20: for every max_attempts >= 1, every delays tuple and every pattern of
\* failures, retry_sync and retry_async call func until its first success
\* and at most max_attempts times, return the first successful result, or
\* None after max_attempts failed calls, and let no exception out.
C20_RetryReturnsOrNone ==
    (unit.kind = "retry" /\ unit.phase = "out") => RetryContract(unit)

\* With a delays tuple that is not empty the helpers keep the contract.
RetryContractWithDelays ==
    (unit.kind = "retry" /\ unit.phase = "out" /\ unit.delays # <<>>)
        => RetryContract(unit)

\* C21: analyze_content returns one analysis per input item: the result is
\* as long as the input and its k-th element carries the k-th item's url.
C21_OneAnalysisPerItem ==
    (unit.kind = "analyze" /\ unit.phase = "out") =>
        /\ ~unit.raised
        /\ Len(unit.results) = Len(unit.content_list)
        /\ \A k \in 1..Len(unit.results) :
               unit.results[k].source_url = unit.content_list[k]

\* The positions of the items whose answer was kept, in order.
RECURSIVE KeptPositions(_, _)
KeptPositions(answers, k) ==
    IF k > Len(answers) THEN <<>>
    ELSE (IF answers[k] \in {"object", "not_json"} THEN <<k>> ELSE <<>>)
             \o KeptPositions(answers, k + 1)

\* What analyze_content returns when it returns: the analyses of the items
\* that Gemini answered with text, in input order, failed items left out.
AnalysesOfAnsweredItems ==
    (unit.kind = "analyze" /\ unit.phase = "out" /\ ~unit.raised) =>
        LET kept == KeptPositions(unit.answers, 1) IN
        /\ Len(unit.results) = Len(kept)
        /\ \A k \in 1..Len(kept) :
               unit.results[k].source_url = unit.content_list[kept[k]]

StepOrder == <<"generate_video", "synthesize_script", "compose_final">>

\* C23: for one item the steps run in the order video generation, voice
\* synthesis, composition; voice synthesis is invoked only after video
\* generation returned a path and compose_final only after both did.
C23_StepsInOrder ==
    unit.kind = "item" =>
        /\ Len(unit.invoked) <= 3
        /\ unit.invoked = SubSeq(StepOrder, 1, Len(unit.invoked))
        /\ Len(unit.invoked) >= 2 => unit.video_path # NULL
        /\ Len(unit.invoked) >= 3 => unit.video_path # NULL /\ unit.audio_path # NULL

\* An item whose voice synthesis returned null after its video was made:
\* compose_final was not invoked.
C23_Witness ==
    /\ unit.kind = "item" /\ unit.phase = "out"
    /\ unit.invoked = <<"generate_video", "synthesize_script">>
    /\ unit.video_path # NULL /\ unit.audio_path = NULL
    /\ unit.fields = {"video_path"}

\* The stored texts that decode to a JSON value that is not an object.
NonObjectTexts == {"string", "list", "number", "null"}

\* C28: an item whose stored script decodes to a JSON value that is not an
\* object ends failed with no video, voice or composition call; a stored
\* script that is not valid JSON is replaced by a fallback object and the
\* item proceeds to video generation.
C28_NonObjectScriptFails ==
    unit.kind = "item" =>
        /\ (unit.script_raw.text \in NonObjectTexts /\ unit.phase # "parse") =>
               /\ unit.phase = "out"
               /\ unit.status = "failed"
               /\ unit.invoked = <<>>
               /\ unit.fields = {}
        /\ (unit.script_raw.text \in {"not_json", "empty"}) =>
               /\ unit.script.type = "dict" /\ unit.script.fallback
               /\ unit.phase # "parse" =>
                      \/ unit.phase = "video"
                      \/ (unit.invoked # <<>> /\ unit.invoked[1] = "generate_video")

\* An item whose stored script is a JSON string has ended failed, while the
\* API keys were set.
C28_Witness ==
    /\ unit.kind = "item" /\ unit.phase = "out"
    /\ unit.script_raw.text = "string"
    /\ unit.higgsfield /\ unit.elevenlabs
    /\ unit.status = "failed"

\* An item whose stored script is not JSON has been generated.
FallbackScriptGenerated ==
    /\ unit.kind = "item" /\ unit.phase = "out"
    /\ unit.script_raw.text = "not_json"
    /\ unit.status = "generated"

\* An id whose prerequisites are missing: no such row, a status other than
\* generated, or no final video.
Dropped(q, id) ==
    \/ ~Exists(q, id)
    \/ q[id].status # "generated"
    \/ q[id].final_video_path = NULL

\* C24: run_scheduling puts no id whose prerequisites are missing into the
\* batch it uploads and submits, and leaves that id's row as it was.
C24_DropsUnpreparedItems ==
    [][(ret'.op = "scheduling") =>
          \A id \in Range(ret'.ids) :
              Dropped(queue, id) =>
                  /\ id \notin Range(ret'.batch)
                  /\ id \notin Range(ret'.val)
                  /\ \A k \in 1..Len(post_log') : post_log'[k].content_id # id
                  /\ Exists(queue, id) =>
                         Exists(queue', id) /\ queue'[id] = queue[id]]_vars

\* A call given a generated row without a final video beside a row that was
\* scheduled by the call.
C24_Witness ==
    /\ unit.kind = "rows"
    /\ ret.op = "scheduling"
    /\ ret.ids = <<1, 2>>
    /\ ret.val = <<2>>
    /\ Len(queue) = 2
    /\ queue[1].status = "generated" /\ queue[1].final_video_path = NULL
    /\ queue[2].status = "scheduled"

\* C25: over repeated command-line runs, no item's video is accepted by
\* more than one schedule_post call.
C25_SubmittedOnce ==
    unit.kind = "repeat" => \A id \in 1..MaxItems : unit.posted[id] <= 1

\* The schedule_post requests of one schedule_batch call give different
\* batch indices different times.
DistinctTimes(requests) ==
    \A a, b \in 1..Len(requests) :
        requests[a].index # requests[b].index => requests[a].time # requests[b].time

\* C26: within one schedule_batch call, for every postsPerDay >= 1, no two
\* batch indices are given the same schedule time.
C26_NoSharedSlot ==
    (sb.phase = "out" /\ sb.ppd >= 1) => DistinctTimes(sb.result.requests)

\* Up to three posts a day, the times of a batch are all different.
NoSharedSlotUpToThree ==
    (sb.phase = "out" /\ sb.ppd \in 1..Len(Hours)) => DistinctTimes(sb.result.requests)

\* The item the running generation has marked generating and not finished.
InHand(i) == pc = "gen" /\ frame.marked /\ frame.ids[frame.pos] = i

\* C27: driven through the command-line phases only, no step changes the
\* row of an item that is failed, scheduled or left in generating by an
\* earlier command; generating is entered from pending only and scheduled
\* from generated only.
C27_TerminalStatuses ==
    [][\A i \in 1..Len(queue) :
          /\ queue[i].status \in {"failed", "scheduled"} => queue'[i] = queue[i]
          /\ (queue[i].status = "generating" /\ ~InHand(i)) => queue'[i] = queue[i]
          /\ queue'[i].status # queue[i].status
                => <<queue[i].status, queue'[i].status>> \in AllowedChanges]_vars

\* A later command generates item 2 while item 1 is still in generating,
\* where an interrupted command left it.
C27_Witness ==
    /\ Len(queue) = 2
    /\ queue[1].status = "generating"
    /\ InHand(2)
    /\ calls = 2

\* C29: in every state of the content queue, after any sequence of phase
\* calls, an item's post_submission_id is set if and only if its status is
\* scheduled.
C29_SubmissionIdIffScheduled ==
    \A i \in 1..Len(queue) :
        (queue[i].post_submission_id # NULL) <=> (queue[i].status = "scheduled")

====
